---- MODULE Spec2Model ----
(***************************************************************************)
(* A model of twitter.pants.tasks.ide_gen: the IdeGen task, its Project,   *)
(* SourceSet and ClasspathEntry.                                           *)
(*                                                                         *)
(* A path string is a sequence of its '/'-separated components; a trailing *)
(* "" component is a trailing slash ('a/' is <<"a", "">>), and '' is <<>>. *)
(* The absolute prefix of the build root is the one component "root".      *)
(***************************************************************************)
EXTENDS Integers, Sequences, FiniteSets, TLC

\* ------------------------------------------------------------- bounds
\* the most root targets given on the command line
MaxRoots == 2
\* the most entries of each of extra_jvm_source_paths, extra_jvm_test_paths
MaxExtra == 1

\* ------------------------------------------------------------ os.path
None == <<"<None>">>

Front(s) == SubSeq(s, 1, Len(s) - 1)

Last(s) == s[Len(s)]

\* os.path.normpath, for the paths that occur here: drops the trailing slash
normpath(p) == IF p # <<>> /\ Last(p) = "" THEN Front(p) ELSE p

\* os.path.join(a, b) for a relative b: join('x', '') is 'x/'
join(a, b) ==
  IF a = <<>> THEN b ELSE normpath(a) \o (IF b = <<>> THEN <<"">> ELSE b)

\* os.path.dirname of a relative file name
dirname(source) == Front(source)

\* the head of os.path.split(p): 'root/a/' -> 'root/a', 'root/a/b' -> 'root/a'
split_head(p) == Front(p)

IsPrefix(p, q) == Len(p) <= Len(q) /\ SubSeq(q, 1, Len(p)) = p

IsProperPrefix(p, q) == Len(p) < Len(q) /\ SubSeq(q, 1, Len(p)) = p

CommonLen(p, s) ==
  Cardinality({k \in 1..Len(p) : k <= Len(s) /\ SubSeq(p, 1, k) = SubSeq(s, 1, k)})

\* os.path.relpath(path, start)
relpath(path, start) ==
  LET p == normpath(path)
      s == normpath(start)
      k == CommonLen(p, s)
      rel == [j \in 1..(Len(s) - k) |-> ".."] \o SubSeq(p, k + 1, Len(p))
  IN IF rel = <<>> THEN <<".">> ELSE rel

\* ----------------------------------------------------- the build root
root_dir == <<"root">>

\* the directories on disk, relative to the build root
Disk ==
  { <<"a">>, <<"a", "b">>, <<"a", "b", "c">>, <<"a", "b", "k">>,
    <<"a", "x">>, <<"a", "z">>, <<"a", "z", "w">>,
    <<"r">>, <<"r", "res">>, <<"t">>, <<"t", "v">> }

DiskAbs == { root_dir \o d : d \in Disk }

\* every os.path.join(root, directory) that os.walk(top) yields, at any depth
os_walk_dirs(top) == { d \in DiskAbs : IsProperPrefix(normpath(top), d) }

\* --------------------------------------------------- iteration orders
\* A Python set or dict iterates in the order of its elements' hashes, which
\* is fixed within one process and differs between processes (hash seed).
HashSeeds == {0, 1}

NameRank(n) ==
  CASE n = "" -> 0 [] n = "a" -> 1 [] n = "b" -> 2 [] n = "c" -> 3
    [] n = "k" -> 4 [] n = "x" -> 5 [] n = "z" -> 6 [] n = "w" -> 7
    [] n = "r" -> 8 [] n = "res" -> 9 [] n = "t" -> 10 [] n = "v" -> 11
    [] n = "root" -> 12 [] n = "e" -> 13
    [] n = "A" -> 1 [] n = "B" -> 2 [] n = "C" -> 3 [] n = "S" -> 4
    [] n = "E" -> 5 [] n = "G" -> 6
    [] OTHER -> 14

RECURSIVE PathRank(_)
PathRank(p) == IF p = <<>> THEN 0 ELSE 1 + NameRank(Last(p)) + 16 * PathRank(Front(p))

Hashed(r, seed) == IF seed = 0 THEN r ELSE 0 - r

RECURSIVE IterateDirs(_, _)
\* the sequence in which a set of path strings is iterated under hash seed `seed`
IterateDirs(S, seed) ==
  IF S = {} THEN <<>>
  ELSE LET m == CHOOSE x \in S :
                  \A y \in S : Hashed(PathRank(x), seed) <= Hashed(PathRank(y), seed)
       IN <<m>> \o IterateDirs(S \ {m}, seed)

RECURSIVE IterateTargets(_, _)
\* the sequence in which a set of targets (or addresses) is iterated
IterateTargets(S, seed) ==
  IF S = {} THEN <<>>
  ELSE LET m == CHOOSE x \in S :
                  \A y \in S : Hashed(NameRank(x), seed) <= Hashed(NameRank(y), seed)
       IN <<m>> \o IterateTargets(S \ {m}, seed)

SeqToSet(s) == { s[k] : k \in 1..Len(s) }

\* OrderedSet.update / OrderedSet(iterable): appends what is not there yet
RECURSIVE OrderedSetUpdate(_, _)
OrderedSetUpdate(os, items) ==
  IF items = <<>> THEN os
  ELSE OrderedSetUpdate(IF Head(items) \in SeqToSet(os) THEN os ELSE Append(os, Head(items)),
                        Tail(items))

SelectNotIn(s, S) == SelectSeq(s, LAMBDA x : x \notin S)

\* ------------------------------------------------------------ targets
\* The build graph handed to the task: every Target with the attributes
\* ide_gen.py reads.  A source is its file name relative to target_base.
Targets == {"A", "B", "C", "S", "E", "G"}

Src(name, ext) == [name |-> name, ext |-> ext]

NoTarget ==
  [target_base |-> <<>>, sources |-> {}, resources |-> <<>>, dependencies |-> <<>>,
   is_test |-> FALSE, is_codegen |-> FALSE, is_java |-> FALSE, is_scala |-> FALSE,
   is_jvm |-> TRUE, buildfile |-> <<>>]

TargetDef(t) ==
  CASE t = "A" ->
         [NoTarget EXCEPT !.target_base = <<"a">>,
            !.sources = {Src(<<"A.java">>, ".java")},
            !.resources = << [target_base |-> <<"r">>,
                              sources |-> {<<"res", "a.txt">>, <<"b.txt">>}] >>,
            !.dependencies = <<"B", "G">>, !.is_java = TRUE, !.buildfile = <<"a">>]
    [] t = "B" ->
         [NoTarget EXCEPT !.target_base = <<"a">>,
            !.sources = {Src(<<"b", "B.java">>, ".java")},
            !.buildfile = <<"a", "b">>]
    [] t = "C" ->
         [NoTarget EXCEPT !.target_base = <<"a", "b", "c">>,
            !.sources = {Src(<<"C.scala">>, ".scala")},
            !.buildfile = <<"a", "b", "c">>]
    [] t = "S" ->
         [NoTarget EXCEPT !.target_base = <<"a">>,
            !.sources = {Src(<<"A2.java">>, ".java"), Src(<<"x", "S.java">>, ".java")},
            !.buildfile = <<"a">>]
    [] t = "E" ->
         [NoTarget EXCEPT !.target_base = <<"t">>,
            !.sources = {Src(<<"E.scala">>, ".scala")},
            !.dependencies = <<"C">>, !.is_test = TRUE, !.is_scala = TRUE,
            !.buildfile = <<"t">>]
    [] t = "G" ->
         [NoTarget EXCEPT !.target_base = <<"a">>,
            !.sources = {Src(<<"b", "k", "G.thrift">>, ".thrift")},
            !.dependencies = <<"C">>,
            !.is_codegen = TRUE, !.buildfile = <<"a", "b", "k">>]

\* target.has_sources(extension)
has_sources_ext(t, ext) == \E s \in TargetDef(t).sources : s.ext = ext

\* target.has_sources()
has_sources(t) == TargetDef(t).sources # {}

is_scala(t) == has_sources_ext(t, ".scala") \/ TargetDef(t).is_scala

is_java(t) == has_sources_ext(t, ".java") \/ TargetDef(t).is_java

\* the file names of target.sources
source_names(t) == { s.name : s \in TargetDef(t).sources }

\* Target.get_all_addresses over target.address.buildfile, its ancestors(),
\* siblings() and descendants(): the targets of the definition files in the
\* same directory, in a directory above it and in a directory below it
candidates(t) ==
  { u \in Targets : \/ IsPrefix(TargetDef(u).buildfile, TargetDef(t).buildfile)
                    \/ IsPrefix(TargetDef(t).buildfile, TargetDef(u).buildfile) }

RECURSIVE walk_order(_, _, _)
\* Target.walk with a work that returns nothing: the targets in the order a
\* depth-first walk along the dependency edges first visits them
walk_order(stack, walked, acc) ==
  IF stack = <<>> THEN acc
  ELSE IF Head(stack) \in walked THEN walk_order(Tail(stack), walked, acc)
  ELSE walk_order(TargetDef(Head(stack)).dependencies \o Tail(stack),
                  walked \cup {Head(stack)}, Append(acc, Head(stack)))

RECURSIVE context_targets(_)
\* context.targets(): the dependency closure of the target roots, in walk order
context_targets(roots) ==
  IF roots = <<>> THEN <<>>
  ELSE OrderedSetUpdate(walk_order(<<Head(roots)>>, {}, <<>>), context_targets(Tail(roots)))

\* Target.extract_jvm_targets
extract_jvm_targets(targets) == SelectSeq(targets, LAMBDA t : TargetDef(t).is_jvm)

\* -------------------------------------------------------------- state
Invocations == {1, 2}

VARIABLES
  opts,               \* context.options, context.target_roots, context.config
  hash_seed,          \* the hash seed of the invocation's process
  pc,                 \* where each invocation stands
  work_dir,           \* IdeGen.work_dir
  project_targets,    \* Project.targets (an OrderedSet)
  transitive,         \* Project.transitive
  sources,            \* Project.sources
  has_scala,          \* Project.has_scala
  has_tests,          \* Project.has_tests
  analyzed,           \* configure_jvm's analyzed (an OrderedSet)
  targeted,           \* configure_jvm's targeted
  walk,               \* the walk under way: roots left, walked, pending targets
  unexcludable_paths, \* configure_jvm's unexcludable_paths
  source_set_index,   \* the source set the excludes loop stands at
  all_targets,        \* what configure_jvm returned
  extra_paths,        \* configure_jvm's extra_source_paths and extra_test_paths
  TEST_BASES,         \* SourceSet.TEST_BASES, an attribute of the class
  TEST_BASES_writers, \* the invocations that wrote SourceSet.TEST_BASES
  products,           \* execute's targets, the jars and source_jars products, the
                      \* external jar dependencies
  fs,                 \* the files of each staging directory
  internal_jars,      \* Project.internal_jars
  external_jars,      \* Project.external_jars
  stage_targets,      \* the targets map_internal_jars has still to stage
  copied,             \* the copies made since execute was called
  runs,               \* how often execute was called
  fs_first            \* the staging directories as the first execute left them

conf_vars ==
  <<opts, hash_seed, work_dir, project_targets, transitive, sources, has_scala,
    has_tests, analyzed, targeted, walk, unexcludable_paths, source_set_index,
    all_targets, extra_paths, TEST_BASES, TEST_BASES_writers>>

stage_vars ==
  <<products, fs, internal_jars, external_jars, stage_targets, copied, runs, fs_first>>

vars == <<pc, conf_vars, stage_vars>>

\* ---------------------------------------------------------- SourceSet
\* SourceSet.__init__: the fields of the new object
SourceSet(source_base, path, is_test) ==
  [source_base |-> source_base, path |-> path, is_test |-> is_test, excludes |-> <<>>]

\* SourceSet.__init__: what it leaves in SourceSet.TEST_BASES
SourceSet_test_bases(test_bases, source_base, is_test) ==
  IF is_test THEN test_bases \cup {source_base} ELSE test_bases

\* -------------------------------------------------- Project.configure_jvm
\* source_target without its test of self.targets
source_target_any(i, target) ==
  /\ has_sources(target)
  /\ ~TargetDef(target).is_codegen
  /\ ~(opts[i].skip_java /\ is_java(target))
  /\ ~(opts[i].skip_scala /\ is_scala(target))

source_target(i, target) ==
  /\ transitive[i] \/ target \in SeqToSet(project_targets[i])
  /\ has_sources(target)
  /\ ~TargetDef(target).is_codegen
  /\ ~(opts[i].skip_java /\ is_java(target))
  /\ ~(opts[i].skip_scala /\ is_scala(target))

RECURSIVE configure_source_sets_loop(_, _, _, _)
\* the body of configure_source_sets' loop, over the paths in iteration order;
\* st holds targeted, sources and SourceSet.TEST_BASES
configure_source_sets_loop(st, relative_base, paths, is_test) ==
  IF paths = <<>> THEN st
  ELSE LET absolute_base == join(root_dir, relative_base)
           path == Head(paths)
           absolute_path == join(absolute_base, path)
           next ==
             IF absolute_path \notin st.targeted
             THEN [targeted |-> st.targeted \cup {absolute_path},
                   sources |-> Append(st.sources, SourceSet(relative_base, path, is_test)),
                   test_bases |-> SourceSet_test_bases(st.test_bases, relative_base, is_test),
                   wrote |-> st.wrote \/ is_test]
             ELSE st
       IN configure_source_sets_loop(next, relative_base, Tail(paths), is_test)

\* configure_source_sets(relative_base, sources, is_test), sources being file names
configure_source_sets(st, relative_base, srcs, is_test, seed) ==
  configure_source_sets_loop(st, relative_base,
                             IterateDirs({ dirname(source) : source \in srcs }, seed), is_test)

find_source_basedirs(i, target) ==
  IF source_target(i, target)
  THEN { join(join(root_dir, TargetDef(target).target_base), dirname(source)) :
           source \in source_names(target) }
  ELSE {}

\* is_sibling of a configure_target that discovers no sibling
is_sibling_never(i, target_dirset, target) == FALSE

is_sibling(i, target_dirset, target) ==
  source_target(i, target) /\ target_dirset \cap find_source_basedirs(i, target) # {}

\* resources_by_basedir[basedir] of configure_target
resources_by_basedir(target, basedir) ==
  UNION { TargetDef(target).resources[k].sources :
            k \in { j \in 1..Len(TargetDef(target).resources) :
                      TargetDef(target).resources[j].target_base = basedir } }

RECURSIVE configure_resources(_, _, _, _)
\* configure_target's loop over resources_by_basedir.items()
configure_resources(st, target, basedirs, seed) ==
  IF basedirs = <<>> THEN st
  ELSE configure_resources(
         configure_source_sets(st, Head(basedirs),
                               resources_by_basedir(target, Head(basedirs)), FALSE, seed),
         target, Tail(basedirs), seed)

\* configure_target(target) for a target that is not analyzed yet: the new
\* values of what it writes, and the list it returns
configure_target(i, target) ==
  LET st0 == [targeted |-> targeted[i], sources |-> sources[i],
              test_bases |-> TEST_BASES, wrote |-> FALSE]
      basedirs == { TargetDef(target).resources[k].target_base :
                      k \in 1..Len(TargetDef(target).resources) }
      st1 == configure_resources(st0, target, IterateDirs(basedirs, hash_seed[i]),
                                 hash_seed[i])
      test == TargetDef(target).is_test
      st2 == IF source_names(target) # {}
             THEN configure_source_sets(st1, TargetDef(target).target_base,
                                        source_names(target), test, hash_seed[i])
             ELSE st1
      target_dirset == find_source_basedirs(i, target)
      siblings == { c \in candidates(target) \ {target} : is_sibling(i, target_dirset, c) }
  IN [analyzed |-> Append(analyzed[i], target),
      has_scala |-> ~opts[i].skip_scala /\ (has_scala[i] \/ is_scala(target)),
      has_tests |-> IF source_names(target) # {} THEN has_tests[i] \/ test ELSE has_tests[i],
      targeted |-> st2.targeted,
      sources |-> st2.sources,
      test_bases |-> st2.test_bases,
      wrote |-> st2.wrote,
      additional |-> IterateTargets(siblings, hash_seed[i])]

RECURSIVE ancestors_to_root(_)
\* the while loop of configure_jvm: parent and every split head of it, up to
\* and not including root_dir
ancestors_to_root(parent) ==
  {parent} \cup (IF split_head(parent) = root_dir \/ Len(parent) <= 1 THEN {}
                 ELSE ancestors_to_root(split_head(parent)))

\* unexcludable_paths once the loop over self.sources is done
unexcludable(srcs) ==
  UNION { ancestors_to_root(join(join(root_dir, srcs[k].source_base), srcs[k].path)) :
            k \in 1..Len(srcs) }

RECURSIVE append_excludes_unchecked(_, _, _, _)
\* the loop over unused_children without its test of unexcludable_paths
append_excludes_unchecked(excludes, children, source_base, unexcl) ==
  IF children = <<>> THEN excludes
  ELSE append_excludes_unchecked(Append(excludes, relpath(Head(children), source_base)),
                                 Tail(children), source_base, unexcl)

RECURSIVE append_excludes(_, _, _, _)
\* the loop over unused_children, in iteration order
append_excludes(excludes, children, source_base, unexcl) ==
  IF children = <<>> THEN excludes
  ELSE append_excludes(
         IF Head(children) \notin unexcl
         THEN Append(excludes, relpath(Head(children), source_base))
         ELSE excludes,
         Tail(children), source_base, unexcl)

\* source_set.excludes after the body of the excludes loop ran for source_set
excludes_of(source_set, tgtd, unexcl, seed) ==
  LET source_base == join(root_dir, source_set.source_base)
      paths == os_walk_dirs(join(source_base, source_set.path))
      unused_children == paths \ tgtd
  IN append_excludes(source_set.excludes, IterateDirs(unused_children, seed),
                     source_base, unexcl)

RECURSIVE walk_targets(_, _, _)
\* the second loop over self.targets: target.walk(targets.add, source_target)
walk_targets(i, roots, acc) ==
  IF roots = <<>> THEN acc
  ELSE walk_targets(i, Tail(roots),
         OrderedSetUpdate(acc, SelectSeq(walk_order(<<Head(roots)>>, {}, <<>>),
                                         LAMBDA t : source_target(i, t))))

\* the SourceSets configure_jvm appends for extra_source_paths and extra_test_paths
extra_source_sets(paths, is_test) ==
  [k \in 1..Len(paths) |-> SourceSet(paths[k], None, is_test)]

\* ------------------------------------------------------------ actions
RECURSIVE SeqsUpTo(_, _)
\* the sequences over S of at most n elements
SeqsUpTo(S, n) ==
  IF n = 0 THEN {<<>>}
  ELSE LET shorter == SeqsUpTo(S, n - 1)
       IN shorter \cup { Append(s, x) : s \in shorter, x \in S }

\* the directories the configuration names as extra source or test roots
ExtraRoots == { <<"a", "z">>, <<"a", "z", "w">>, <<"e">> }

\* the lists the configuration can give over the directories S
ExtraLists(S) == SeqsUpTo(S, MaxExtra)

\* IdeGen.__init__'s work_dir
init_work_dir(o) ==
  IF o.project_dir # None THEN o.project_dir
  ELSE join(join(<<"root", ".pants.d", "ide">>, <<"IdeGen">>), <<o.project_name>>)

\* IdeGen.configure_project: jvm_targets as Project.__init__ receives them
jvm_targets(o, seed) ==
  LET jvm == extract_jvm_targets(context_targets(o.target_roots))
  IN IF o.intransitive
     THEN IterateTargets(SeqToSet(o.target_roots) \cap SeqToSet(jvm), seed)
     ELSE jvm

\* IdeGen.__init__ up to the call of project.configure_jvm
init(i) ==
  /\ pc[i] = "init"
  /\ work_dir' = [work_dir EXCEPT ![i] = init_work_dir(opts[i])]
  /\ project_targets' = [project_targets EXCEPT ![i] = jvm_targets(opts[i], hash_seed[i])]
  /\ transitive' = [transitive EXCEPT ![i] = ~opts[i].intransitive]
  /\ walk' = [walk EXCEPT ![i] = [roots |-> jvm_targets(opts[i], hash_seed[i]),
                                  walked |-> {}, stack |-> <<>>]]
  /\ pc' = [pc EXCEPT ![i] = "walk"]
  /\ UNCHANGED stage_vars
  /\ UNCHANGED <<opts, hash_seed, sources, has_scala, has_tests, analyzed, targeted,
                 unexcludable_paths, source_set_index, all_targets, extra_paths,
                 TEST_BASES, TEST_BASES_writers>>

\* for target in self.targets: target.walk(configure_target, source_target)
walk_root(i) ==
  /\ pc[i] = "walk"
  /\ walk[i].stack = <<>>
  /\ IF walk[i].roots = <<>>
     THEN /\ pc' = [pc EXCEPT ![i] = "unexcludable"]
          /\ UNCHANGED walk
     ELSE /\ walk' = [walk EXCEPT ![i] = [roots |-> Tail(walk[i].roots), walked |-> {},
                                          stack |-> <<Head(walk[i].roots)>>]]
          /\ UNCHANGED pc
  /\ UNCHANGED stage_vars
  /\ UNCHANGED <<opts, hash_seed, work_dir, project_targets, transitive, sources,
                 has_scala, has_tests, analyzed, targeted, unexcludable_paths,
                 source_set_index, all_targets, extra_paths, TEST_BASES,
                 TEST_BASES_writers>>

\* the walk reaches a target it walked already, or one source_target refuses
walk_skip(i) ==
  /\ pc[i] = "walk"
  /\ walk[i].stack # <<>>
  /\ LET target == Head(walk[i].stack)
     IN /\ target \in walk[i].walked \/ ~source_target(i, target)
        /\ walk' = [walk EXCEPT ![i].walked = @ \cup {target},
                                ![i].stack = IF target \in walk[i].walked THEN Tail(@)
                                             ELSE TargetDef(target).dependencies \o Tail(@)]
  /\ UNCHANGED stage_vars
  /\ UNCHANGED <<opts, hash_seed, pc, work_dir, project_targets, transitive, sources,
                 has_scala, has_tests, analyzed, targeted, unexcludable_paths,
                 source_set_index, all_targets, extra_paths, TEST_BASES,
                 TEST_BASES_writers>>

\* the walk hands a target to configure_target
walk_visit(i) ==
  /\ pc[i] = "walk"
  /\ walk[i].stack # <<>>
  /\ LET target == Head(walk[i].stack)
         r == configure_target(i, target)
     IN /\ target \notin walk[i].walked
        /\ source_target(i, target)
        /\ IF target \in SeqToSet(analyzed[i])
           THEN /\ walk' = [walk EXCEPT ![i].walked = @ \cup {target},
                              ![i].stack = TargetDef(target).dependencies \o Tail(@)]
                /\ UNCHANGED <<analyzed, has_scala, has_tests, targeted, sources,
                               TEST_BASES, TEST_BASES_writers>>
           ELSE /\ walk' = [walk EXCEPT ![i].walked = @ \cup {target},
                              ![i].stack = TargetDef(target).dependencies \o r.additional
                                             \o Tail(@)]
                /\ analyzed' = [analyzed EXCEPT ![i] = r.analyzed]
                /\ has_scala' = [has_scala EXCEPT ![i] = r.has_scala]
                /\ has_tests' = [has_tests EXCEPT ![i] = r.has_tests]
                /\ targeted' = [targeted EXCEPT ![i] = r.targeted]
                /\ sources' = [sources EXCEPT ![i] = r.sources]
                /\ TEST_BASES' = r.test_bases
                /\ TEST_BASES_writers' =
                     IF r.wrote THEN TEST_BASES_writers \cup {i} ELSE TEST_BASES_writers
  /\ UNCHANGED stage_vars
  /\ UNCHANGED <<opts, hash_seed, pc, work_dir, project_targets, transitive,
                 unexcludable_paths, source_set_index, all_targets, extra_paths>>

\* the loop that builds unexcludable_paths
compute_unexcludable(i) ==
  /\ pc[i] = "unexcludable"
  /\ unexcludable_paths' = [unexcludable_paths EXCEPT ![i] = unexcludable(sources[i])]
  /\ source_set_index' = [source_set_index EXCEPT ![i] = 1]
  /\ pc' = [pc EXCEPT ![i] = "excludes"]
  /\ UNCHANGED stage_vars
  /\ UNCHANGED <<opts, hash_seed, work_dir, project_targets, transitive, sources,
                 has_scala, has_tests, analyzed, targeted, walk, all_targets,
                 extra_paths, TEST_BASES, TEST_BASES_writers>>

\* one turn of the loop that fills the source sets' excludes
compute_excludes(i) ==
  /\ pc[i] = "excludes"
  /\ source_set_index[i] <= Len(sources[i])
  /\ sources' = [sources EXCEPT ![i][source_set_index[i]].excludes =
                   excludes_of(sources[i][source_set_index[i]], targeted[i],
                               unexcludable_paths[i], hash_seed[i])]
  /\ source_set_index' = [source_set_index EXCEPT ![i] = @ + 1]
  /\ UNCHANGED stage_vars
  /\ UNCHANGED <<opts, hash_seed, pc, work_dir, project_targets, transitive, has_scala,
                 has_tests, analyzed, targeted, walk, unexcludable_paths, all_targets,
                 extra_paths, TEST_BASES, TEST_BASES_writers>>

\* the end of configure_jvm: the targets it returns and the extra source sets;
\* the two lists the caller read from the configuration, over the directories
\* opts.extra_roots, are used only here
finish(i) ==
  /\ pc[i] = "excludes"
  /\ source_set_index[i] > Len(sources[i])
  /\ LET targets == walk_targets(i, project_targets[i], <<>>)
     IN all_targets' = [all_targets EXCEPT ![i] = OrderedSetUpdate(targets, analyzed[i])]
  /\ \E extra_source_paths \in ExtraLists(opts[i].extra_roots),
        extra_test_paths \in ExtraLists(opts[i].extra_roots) :
       /\ extra_paths' = [extra_paths EXCEPT ![i] = [source |-> extra_source_paths,
                                                     test |-> extra_test_paths]]
       /\ sources' = [sources EXCEPT ![i] =
                        @ \o extra_source_sets(extra_source_paths, FALSE)
                          \o extra_source_sets(extra_test_paths, TRUE)]
       /\ TEST_BASES' = TEST_BASES \cup SeqToSet(extra_test_paths)
       /\ TEST_BASES_writers' = IF extra_test_paths # <<>>
                                THEN TEST_BASES_writers \cup {i} ELSE TEST_BASES_writers
  /\ pc' = [pc EXCEPT ![i] = "configured"]
  /\ UNCHANGED stage_vars
  /\ UNCHANGED <<opts, hash_seed, work_dir, project_targets, transitive, has_scala,
                 has_tests, analyzed, targeted, walk, unexcludable_paths,
                 source_set_index>>

\* ------------------------------------------------------------ staging
\* the most entries list_jar_dependencies returns
MaxExternal == 2
\* the most calls of execute on one task
MaxRuns == 2

\* the targets handed to execute
StageTargets == {"A", "B"}

Mapping(base, jars) == [base |-> base, jars |-> jars]

\* what a products mapping holds for one target: its (base, jars) items in the
\* order the mapping iterates them
JarMappings ==
  { <<>>,
    << Mapping(<<"d1">>, <<"x.jar">>) >>,
    << Mapping(<<"d2">>, <<"x.jar">>) >>,
    << Mapping(<<"lib">>, <<"t-1.jar", "t-2.jar">>) >>,
    << Mapping(<<"d1">>, <<"x.jar">>), Mapping(<<"lib">>, <<"t-1.jar", "t-2.jar">>) >> }

SourceJarMappings ==
  { <<>>,
    << Mapping(<<"d1">>, <<"x-sources.jar">>) >>,
    << Mapping(<<"lib">>, <<"s-1.jar", "s-2.jar">>) >> }

\* the entries list_jar_dependencies can return: a path for each conf, or None
ExternalEntries ==
  { [default |-> <<"ivy", "g1", "guava.jar">>,
     sources |-> <<"ivy", "g1", "guava-sources.jar">>, javadoc |-> None],
    [default |-> <<"ivy", "g2", "guava.jar">>,
     sources |-> None, javadoc |-> <<"ivy", "g2", "guava-javadoc.jar">>],
    [default |-> None,
     sources |-> <<"ivy", "g3", "lone-sources.jar">>, javadoc |-> None] }

Products ==
  [targets : { s \in SeqsUpTo(StageTargets, Cardinality(StageTargets)) :
                 \A j, k \in 1..Len(s) : j # k => s[j] # s[k] },
   jars : [StageTargets -> JarMappings],
   source_jars : [StageTargets -> SourceJarMappings],
   external : SeqsUpTo(ExternalEntries, MaxExternal)]

NoProducts ==
  [targets |-> <<>>, jars |-> [t \in StageTargets |-> <<>>],
   source_jars |-> [t \in StageTargets |-> <<>>], external |-> <<>>]

StagingNames ==
  {"internal-libs", "internal-libsources", "external-libs", "external-libsources",
   "external-libjavadoc"}

File(name, content) == [name |-> name, content |-> content]

Copy(dir, name, content) == [dir |-> dir, name |-> name, content |-> content]

\* what a staging directory can hold before the task runs
StaleFiles == { File("stale.jar", <<"old">>), File("x.jar", <<"old">>) }

\* os.path.basename
basename(path) == Last(path)

\* shutil.copy(src, os.path.join(dir, name)) on the files of dir
shutil_copy(files, name, src) == { f \in files : f.name # name } \cup { File(name, src) }

\* safe_mkdir(directory, clean=True): the directory exists and is empty
safe_mkdir_clean(files) == {}

ClasspathEntry(jar, source_jar, javadoc_jar) ==
  [jar |-> jar, source_jar |-> source_jar, javadoc_jar |-> javadoc_jar]

\* map_internal_jars had it not cleaned internal-libsources
internal_dirs_made_unclean(f, wd) ==
  [f EXCEPT ![join(wd, <<"internal-libs">>)] = safe_mkdir_clean(@)]

\* map_internal_jars up to its loop: both directories as safe_mkdir leaves them
internal_dirs_made(f, wd) ==
  [f EXCEPT ![join(wd, <<"internal-libs">>)] = safe_mkdir_clean(@),
            ![join(wd, <<"internal-libsources">>)] = safe_mkdir_clean(@)]

\* map_external_jars up to its loop
external_dirs_made(f, wd) ==
  [f EXCEPT ![join(wd, <<"external-libs">>)] = safe_mkdir_clean(@),
            ![join(wd, <<"external-libsources">>)] = safe_mkdir_clean(@),
            ![join(wd, <<"external-libjavadoc">>)] = safe_mkdir_clean(@)]

RECURSIVE copy_source_jars(_, _, _)
\* the inner loop of map_internal_jars over the source_jars mapping's items;
\* st holds fs, copied, the entries added, cp_source_jar and whether it raised
copy_source_jars(st, mappings, wd) ==
  IF mappings = <<>> THEN st
  ELSE LET base == Head(mappings).base
           jars == Head(mappings).jars
           internal_source_jar_dir == join(wd, <<"internal-libsources">>)
       IN IF Len(jars) # 1 THEN [st EXCEPT !.raised = TRUE]
          ELSE copy_source_jars(
                 [st EXCEPT !.cp_source_jar = join(internal_source_jar_dir, <<jars[1]>>),
                            !.fs[internal_source_jar_dir] =
                               shutil_copy(@, jars[1], join(base, <<jars[1]>>)),
                            !.copied = @ \cup {Copy(internal_source_jar_dir, jars[1],
                                                    join(base, <<jars[1]>>))}],
                 Tail(mappings), wd)

RECURSIVE copy_jars(_, _, _, _)
\* the loop of map_internal_jars over one target's jars mapping's items
copy_jars(st, mappings, source_mappings, wd) ==
  IF mappings = <<>> \/ st.raised THEN st
  ELSE LET base == Head(mappings).base
           jars == Head(mappings).jars
           internal_jar_dir == join(wd, <<"internal-libs">>)
           cp_jar == join(internal_jar_dir, <<jars[1]>>)
           copied_jar ==
             [st EXCEPT !.cp_source_jar = None,
                        !.fs[internal_jar_dir] =
                           shutil_copy(@, jars[1], join(base, <<jars[1]>>)),
                        !.copied = @ \cup {Copy(internal_jar_dir, jars[1],
                                                join(base, <<jars[1]>>))}]
           with_sources == copy_source_jars(copied_jar, source_mappings, wd)
       IN IF Len(jars) # 1 THEN [st EXCEPT !.raised = TRUE]
          ELSE IF with_sources.raised THEN with_sources
          ELSE copy_jars(
                 [with_sources EXCEPT !.entries =
                    Append(@, ClasspathEntry(cp_jar, with_sources.cp_source_jar, None))],
                 Tail(mappings), source_mappings, wd)

RECURSIVE copy_external_jars(_, _, _)
\* the loop of map_external_jars over list_jar_dependencies' entries
copy_external_jars(st, entries, wd) ==
  IF entries = <<>> THEN st
  ELSE LET entry == Head(entries)
           jar == entry.default
           external_jar_dir == join(wd, <<"external-libs">>)
           external_source_jar_dir == join(wd, <<"external-libsources">>)
           external_javadoc_jar_dir == join(wd, <<"external-libjavadoc">>)
           st1 == [st EXCEPT !.fs[external_jar_dir] = shutil_copy(@, basename(jar), jar),
                             !.copied = @ \cup {Copy(external_jar_dir, basename(jar), jar)}]
           st2 == IF entry.sources # None
                  THEN [st1 EXCEPT !.fs[external_source_jar_dir] =
                                      shutil_copy(@, basename(entry.sources), entry.sources),
                                   !.copied = @ \cup {Copy(external_source_jar_dir,
                                                           basename(entry.sources),
                                                           entry.sources)}]
                  ELSE st1
           st3 == IF entry.javadoc # None
                  THEN [st2 EXCEPT !.fs[external_javadoc_jar_dir] =
                                      shutil_copy(@, basename(entry.javadoc), entry.javadoc),
                                   !.copied = @ \cup {Copy(external_javadoc_jar_dir,
                                                           basename(entry.javadoc),
                                                           entry.javadoc)}]
                  ELSE st2
           cp_source_jar == IF entry.sources # None
                            THEN join(external_source_jar_dir, <<basename(entry.sources)>>)
                            ELSE None
           cp_javadoc_jar == IF entry.javadoc # None
                             THEN join(external_javadoc_jar_dir, <<basename(entry.javadoc)>>)
                             ELSE None
       IN IF jar = None THEN copy_external_jars(st, Tail(entries), wd)
          ELSE copy_external_jars(
                 [st3 EXCEPT !.entries =
                    Append(@, ClasspathEntry(join(external_jar_dir, <<basename(jar)>>),
                                             cp_source_jar, cp_javadoc_jar))],
                 Tail(entries), wd)

\* execute(targets) up to the loop of map_internal_jars; the products it reads
\* are those the compile left, the same on every call
execute(i) ==
  /\ pc[i] \in {"configured", "done"}
  /\ runs[i] < MaxRuns
  /\ IF runs[i] = 0
     THEN \E p \in Products : products' = [products EXCEPT ![i] = p]
     ELSE UNCHANGED products
  /\ fs' = internal_dirs_made(fs, work_dir[i])
  /\ stage_targets' = [stage_targets EXCEPT ![i] = products'[i].targets]
  /\ copied' = [copied EXCEPT ![i] = {}]
  /\ runs' = [runs EXCEPT ![i] = @ + 1]
  /\ pc' = [pc EXCEPT ![i] = "internal"]
  /\ UNCHANGED <<internal_jars, external_jars, fs_first>>
  /\ UNCHANGED conf_vars

\* one turn of map_internal_jars' loop over the targets
map_internal_jars(i) ==
  /\ pc[i] = "internal"
  /\ stage_targets[i] # <<>>
  /\ LET target == Head(stage_targets[i])
         st == copy_jars([fs |-> fs, copied |-> copied[i], entries |-> internal_jars[i],
                          cp_source_jar |-> None, raised |-> FALSE],
                         products[i].jars[target], products[i].source_jars[target],
                         work_dir[i])
     IN /\ fs' = st.fs
        /\ copied' = [copied EXCEPT ![i] = st.copied]
        /\ internal_jars' = [internal_jars EXCEPT ![i] = st.entries]
        /\ stage_targets' = [stage_targets EXCEPT ![i] = IF st.raised THEN @ ELSE Tail(@)]
        /\ pc' = [pc EXCEPT ![i] = IF st.raised THEN "failed" ELSE "internal"]
  /\ UNCHANGED <<products, external_jars, runs, fs_first>>
  /\ UNCHANGED conf_vars

\* map_external_jars, called once map_internal_jars returned
map_external_jars(i) ==
  /\ pc[i] = "internal"
  /\ stage_targets[i] = <<>>
  /\ LET st == copy_external_jars([fs |-> external_dirs_made(fs, work_dir[i]),
                                   copied |-> copied[i], entries |-> external_jars[i]],
                                  products[i].external, work_dir[i])
     IN /\ fs' = st.fs
        /\ copied' = [copied EXCEPT ![i] = st.copied]
        /\ external_jars' = [external_jars EXCEPT ![i] = st.entries]
        /\ fs_first' = IF runs[i] = 1 THEN [fs_first EXCEPT ![i] = st.fs] ELSE fs_first
  /\ pc' = [pc EXCEPT ![i] = "done"]
  /\ UNCHANGED <<products, internal_jars, stage_targets, runs>>
  /\ UNCHANGED conf_vars

\* ------------------------------------------------------ specification
IsOrderedSet(s) == \A j, k \in 1..Len(s) : j # k => s[j] # s[k]

\* the target roots a command line names
RootLists == { s \in SeqsUpTo(Targets, MaxRoots) : IsOrderedSet(s) }

ProjectNames == {"project", "other"}

\* the directories --project-dir can name
ProjectDirs == { <<"root", "out">> }

\* every value IdeGen.work_dir can take
WorkDirs ==
  ProjectDirs \cup { join(join(<<"root", ".pants.d", "ide">>, <<"IdeGen">>), <<n>>) :
                       n \in ProjectNames }

StagingDirs == { join(wd, <<n>>) : wd \in WorkDirs, n \in StagingNames }

Options ==
  [project_name : ProjectNames, project_dir : {None},
   intransitive : BOOLEAN, skip_java : BOOLEAN, skip_scala : BOOLEAN,
   target_roots : RootLists, extra_roots : {ExtraRoots}]

IdleOptions ==
  [project_name |-> "project", project_dir |-> None, intransitive |-> FALSE,
   skip_java |-> FALSE, skip_scala |-> FALSE, target_roots |-> <<>>,
   extra_roots |-> {}]

\* everything but the options, the hash seeds and the positions
InitState ==
  /\ work_dir = [i \in Invocations |-> None]
  /\ project_targets = [i \in Invocations |-> <<>>]
  /\ transitive = [i \in Invocations |-> TRUE]
  /\ sources = [i \in Invocations |-> <<>>]
  /\ has_scala = [i \in Invocations |-> FALSE]
  /\ has_tests = [i \in Invocations |-> FALSE]
  /\ analyzed = [i \in Invocations |-> <<>>]
  /\ targeted = [i \in Invocations |-> {}]
  /\ walk = [i \in Invocations |-> [roots |-> <<>>, walked |-> {}, stack |-> <<>>]]
  /\ unexcludable_paths = [i \in Invocations |-> {}]
  /\ source_set_index = [i \in Invocations |-> 1]
  /\ all_targets = [i \in Invocations |-> <<>>]
  /\ extra_paths = [i \in Invocations |-> [source |-> <<>>, test |-> <<>>]]
  /\ TEST_BASES = {}
  /\ TEST_BASES_writers = {}
  /\ products = [i \in Invocations |-> NoProducts]
  /\ internal_jars = [i \in Invocations |-> <<>>]
  /\ external_jars = [i \in Invocations |-> <<>>]
  /\ stage_targets = [i \in Invocations |-> <<>>]
  /\ copied = [i \in Invocations |-> {}]
  /\ runs = [i \in Invocations |-> 0]

\* one invocation of the task, about to be constructed
Init ==
  /\ \E o \in Options : /\ o.project_name = "project"
                        /\ opts = [i \in Invocations |-> IF i = 1 THEN o ELSE IdleOptions]
  /\ \E seed \in HashSeeds : hash_seed = [i \in Invocations |-> seed]
  /\ pc = [i \in Invocations |-> IF i = 1 THEN "init" ELSE "idle"]
  /\ fs = [d \in StagingDirs |-> {}]
  /\ fs_first = [i \in Invocations |-> fs]
  /\ InitState

configure(i) ==
  \/ init(i)
  \/ walk_root(i)
  \/ walk_skip(i)
  \/ walk_visit(i)
  \/ compute_unexcludable(i)
  \/ compute_excludes(i)
  \/ finish(i)

Next == \E i \in Invocations : configure(i)

Spec == Init /\ [][Next]_vars

\* one invocation, of one root, whose staging directories may hold the files
\* of an earlier run
InitStage ==
  /\ opts = [i \in Invocations |-> [IdleOptions EXCEPT !.target_roots = <<"A">>]]
  /\ hash_seed = [i \in Invocations |-> 0]
  /\ pc = [i \in Invocations |-> IF i = 1 THEN "init" ELSE "idle"]
  /\ \E stale \in {{}, StaleFiles} : fs = [d \in StagingDirs |-> stale]
  /\ fs_first = [i \in Invocations |-> fs]
  /\ InitState

stage(i) ==
  \/ execute(i)
  \/ map_internal_jars(i)
  \/ map_external_jars(i)

NextStage == \E i \in Invocations : configure(i) \/ stage(i)

SpecStage == InitStage /\ [][NextStage]_vars

\* two invocations of one root each, alike but for the project name and the
\* project directory, each in a process of its own hash seed
InitTwo ==
  /\ \E o \in Options, name \in ProjectNames, dir1, dir2 \in {None} \cup ProjectDirs :
       /\ o.project_name = "project"
       /\ Len(o.target_roots) = 1
       /\ ~o.skip_java /\ ~o.skip_scala
       /\ opts = [i \in Invocations |->
                    IF i = 1 THEN [o EXCEPT !.project_dir = dir1, !.extra_roots = {<<"e">>}]
                    ELSE [o EXCEPT !.project_name = name, !.project_dir = dir2,
                                   !.extra_roots = {<<"e">>}]]
  /\ hash_seed \in [Invocations -> HashSeeds]
  /\ pc = [i \in Invocations |-> "init"]
  /\ fs = [d \in StagingDirs |-> {}]
  /\ fs_first = [i \in Invocations |-> fs]
  /\ InitState

SpecTwo == InitTwo /\ [][Next]_vars

\* ------------------------------------------------- claims: source sets
\* the directory a SourceSet owns: root_dir/source_base/path
OwnedDir(ss) ==
  normpath(join(join(root_dir, ss.source_base), IF ss.path = None THEN <<>> ELSE ss.path))

\* the directory an entry of ss.excludes names, taken relative to ss's base
ExcludedDir(ss, entry) == normpath(join(join(root_dir, ss.source_base), entry))

\* the directories the excludes of the project's source sets name
AllExcludedDirs(i) ==
  UNION { { ExcludedDir(sources[i][k], e) : e \in SeqToSet(sources[i][k].excludes) } :
            k \in 1..Len(sources[i]) }

\* the source sets the resolver produced (not the appended extra roots)
Resolved(i) == { k \in 1..Len(sources[i]) : sources[i][k].path # None }

Configured(i) == pc[i] = "configured"

\* C1: once configure_jvm returned, no entry of any source set's excludes
\* names a directory that a source set of project.sources owns, the source
\* sets of the extra source and test roots included.
C1_NoOwnedDirExcluded ==
  \A i \in Invocations :
    Configured(i) =>
      \A k \in 1..Len(sources[i]) : OwnedDir(sources[i][k]) \notin AllExcludedDirs(i)

\* C2: once configure_jvm returned, no proper ancestor, strictly below the
\* build root, of a directory owned by a source set of project.sources is
\* named by an entry of any source set's excludes.
C2_AncestorSafety ==
  \A i \in Invocations :
    Configured(i) =>
      \A k \in 1..Len(sources[i]) : \A x \in AllExcludedDirs(i) :
        ~(IsProperPrefix(x, OwnedDir(sources[i][k])) /\ IsProperPrefix(root_dir, x))

\* the same of the source sets the resolver produced alone: the ancestors of
\* the directories in targeted are never excluded
AncestorSafetyOfResolved ==
  \A i \in Invocations :
    Configured(i) =>
      \A k \in Resolved(i) : \A x \in AllExcludedDirs(i) :
        ~(IsProperPrefix(x, OwnedDir(sources[i][k])) /\ IsProperPrefix(root_dir, x))

\* C3: once configure_jvm returned, no two entries of project.sources have
\* the same (source_base, path) key.
C3_OwnershipUnique ==
  \A i \in Invocations :
    Configured(i) =>
      \A j, k \in 1..Len(sources[i]) :
        j # k => <<sources[i][j].source_base, sources[i][j].path>>
                   # <<sources[i][k].source_base, sources[i][k].path>>

\* C5: in an intransitive project every analyzed target (the targets whose
\* sources or resources produced source sets) and every target configure_jvm
\* returns is one of the target roots.
C5_IntransitiveOnlyRoots ==
  \A i \in Invocations :
    opts[i].intransitive =>
      /\ SeqToSet(analyzed[i]) \subseteq SeqToSet(opts[i].target_roots)
      /\ SeqToSet(all_targets[i]) \subseteq SeqToSet(opts[i].target_roots)

\* an intransitive project of root A alone, whose dependency B and sibling S
\* hold sources of their own, is configured and made of A alone
C5_Witness ==
  /\ Configured(1)
  /\ opts[1].intransitive
  /\ opts[1].target_roots = <<"A">>
  /\ ~opts[1].skip_java
  /\ all_targets[1] = <<"A">>
  /\ analyzed[1] = <<"A">>

\* C10: every entry of a source set's excludes, resolved against the source
\* set's own directory root_dir/source_base/path, is a directory on disk
\* below that directory.
C10_ExcludesRelativeToOwnDir ==
  \A i \in Invocations :
    Configured(i) =>
      \A k \in Resolved(i) : \A e \in SeqToSet(sources[i][k].excludes) :
        normpath(join(OwnedDir(sources[i][k]), e)) \in os_walk_dirs(OwnedDir(sources[i][k]))

\* C11: the excludes of every source set hold no entry twice and no entry that
\* names a directory below the directory another entry of the same list names.
C11_ExcludesMinimal ==
  \A i \in Invocations :
    Configured(i) =>
      \A k \in 1..Len(sources[i]) :
        LET excludes == sources[i][k].excludes
        IN \A m, n \in 1..Len(excludes) :
             m # n => /\ excludes[m] # excludes[n]
                      /\ ~IsProperPrefix(excludes[m], excludes[n])

\* the directories the source sets the resolver produced own
ResolvedDirs(i) == { OwnedDir(sources[i][k]) : k \in Resolved(i) }

\* X is neither in targeted nor in unexcludable_paths
Unused(i, X) == X \notin targeted[i] /\ X \notin unexcludable_paths[i]

\* C13: for every source set S the resolver produced and every directory X on
\* disk below S's directory, at any depth, S.excludes lists X (relative to
\* S's base) exactly if X is neither in targeted nor in unexcludable_paths,
\* which is exactly if no resolver-produced source set owns X or a directory
\* below X.
C13_ExcludedIffUnused ==
  \A i \in Invocations :
    Configured(i) =>
      \A k \in Resolved(i) : \A X \in os_walk_dirs(OwnedDir(sources[i][k])) :
        LET S == sources[i][k]
            listed == relpath(X, join(root_dir, S.source_base)) \in SeqToSet(S.excludes)
        IN /\ listed <=> Unused(i, X)
           /\ listed <=> \A D \in ResolvedDirs(i) : ~IsPrefix(X, D)

\* only A is requested, a/b holds the sources of the unrequested B, and b is
\* excluded from the source set of a/
C13_Witness ==
  /\ Configured(1)
  /\ opts[1].target_roots = <<"A">>
  /\ opts[1].intransitive
  /\ ~opts[1].skip_java
  /\ \E k \in Resolved(1) :
       /\ sources[1][k].source_base = <<"a">>
       /\ sources[1][k].path = <<>>
       /\ <<"b">> \in SeqToSet(sources[1][k].excludes)

\* ------------------------------------------------- claims: the closure
\* the targets source_target accepts
Eligible(i) == { t \in Targets : source_target(i, t) }

\* the directories the sources of t lie in
TouchedDirs(t) ==
  { normpath(root_dir \o TargetDef(t).target_base \o dirname(source)) :
      source \in source_names(t) }

\* u is a candidate of t, from the same definition file or one above, beside
\* or below it, and its sources lie in a directory the sources of t lie in
SharesDirectory(t, u) ==
  /\ u # t
  /\ u \in candidates(t)
  /\ TouchedDirs(t) \cap TouchedDirs(u) # {}

DependsOn(t, u) == u \in SeqToSet(TargetDef(t).dependencies)

RECURSIVE EligibleReach(_, _)
\* the source-eligible targets reachable from those of R along dependency and
\* shared-directory edges through source-eligible targets alone
EligibleReach(i, R) ==
  LET more == R \cup { u \in Eligible(i) :
                         \E t \in R : DependsOn(t, u) \/ SharesDirectory(t, u) }
  IN IF more = R THEN R ELSE EligibleReach(i, more)

RECURSIVE WalkReach(_, _)
\* the targets reachable from those of R along the dependency edges of every
\* target, source-eligible or not, and along shared-directory edges between
\* source-eligible targets
WalkReach(i, R) ==
  LET more == R \cup { u \in Targets : \E t \in R : DependsOn(t, u) }
                \cup { u \in Eligible(i) :
                         \E t \in R \cap Eligible(i) : SharesDirectory(t, u) }
  IN IF more = R THEN R ELSE WalkReach(i, more)

Roots(i) == SeqToSet(project_targets[i])

\* analyzed loses no target in any step
AnalyzedGrows ==
  [][\A i \in Invocations : SeqToSet(analyzed[i]) \subseteq SeqToSet(analyzed'[i])]_vars

StagingDir(i, name) == join(work_dir[i], <<name>>)

\* some target handed to execute has a jars mapping of several artifacts
\* under one base directory, and no source_jars mapping has
AmbiguousPrimaryOnly(i) ==
  /\ \E k \in 1..Len(products[i].targets) :
       \E m \in SeqToSet(products[i].jars[products[i].targets[k]]) : Len(m.jars) > 1
  /\ \A t \in StageTargets :
       \A m \in SeqToSet(products[i].source_jars[t]) : Len(m.jars) = 1

\* C4: when a target's jars mapping holds several artifacts under one base
\* directory, map_internal_jars fails, and at the failure nothing was copied to
\* internal-libs or internal-libsources and no ClasspathEntry was added.
C4_NoPartialStaging ==
  \A i \in Invocations :
    AmbiguousPrimaryOnly(i) =>
      /\ pc[i] # "done"
      /\ pc[i] = "failed" =>
           /\ copied[i] = {}
           /\ fs[StagingDir(i, "internal-libs")] = {}
           /\ fs[StagingDir(i, "internal-libsources")] = {}
           /\ internal_jars[i] = <<>>

\* C7: when a staging run is over, each of the five staging directories holds
\* exactly the files copied in this run, whatever it held before, and a second
\* run with the same inputs leaves the directories as the first left them.
C7_StagingIdempotent ==
  \A i \in Invocations :
    pc[i] = "done" =>
      /\ \A n \in StagingNames :
           /\ \A f \in fs[StagingDir(i, n)] :
                Copy(StagingDir(i, n), f.name, f.content) \in copied[i]
           /\ \A c \in copied[i] :
                c.dir = StagingDir(i, n) => \E f \in fs[c.dir] : f.name = c.name
      /\ runs[i] >= 2 => \A n \in StagingNames :
                           fs[StagingDir(i, n)] = fs_first[i][StagingDir(i, n)]

\* a second run is over, every staging directory holds a file, and the
\* directories held stale files before the first run (as those of the unused
\* project directory still do)
C7_Witness ==
  /\ pc[1] = "done"
  /\ runs[1] = 2
  /\ \A n \in StagingNames : fs[StagingDir(1, n)] # {}
  /\ fs[<<"root", "out", "internal-libs">>] = StaleFiles
  /\ work_dir[1] # <<"root", "out">>

\* C8: after a successful staging run no two different artifacts were copied
\* to one staged path, and no two entries of project.internal_jars, or of
\* project.external_jars, have the same jar.
C8_NoCollision ==
  \A i \in Invocations :
    (pc[i] = "done" /\ runs[i] = 1) =>
      /\ \A c1, c2 \in copied[i] :
           (c1.dir = c2.dir /\ c1.name = c2.name) => c1.content = c2.content
      /\ \A j, k \in 1..Len(internal_jars[i]) :
           j # k => internal_jars[i][j].jar # internal_jars[i][k].jar
      /\ \A j, k \in 1..Len(external_jars[i]) :
           j # k => external_jars[i][j].jar # external_jars[i][k].jar

\* ------------------------------------------- claims: two invocations
SameInputs ==
  /\ opts[1].target_roots = opts[2].target_roots
  /\ opts[1].intransitive = opts[2].intransitive
  /\ opts[1].skip_java = opts[2].skip_java
  /\ opts[1].skip_scala = opts[2].skip_scala
  /\ extra_paths[1] = extra_paths[2]

\* C6: two fresh projects configured from the same targets, flags, extra roots
\* and disk end with the same list of source sets and the same returned
\* targets, whatever the iteration orders of the sets.
C6_Deterministic ==
  (Configured(1) /\ Configured(2) /\ SameInputs) =>
    /\ sources[1] = sources[2]
    /\ all_targets[1] = all_targets[2]

\* C9: two invocations of different project names write no common state:
\* neither an object in memory nor a staging directory.
C9_NoSharedState ==
  opts[1].project_name # opts[2].project_name =>
    /\ Cardinality(TEST_BASES_writers) <= 1
    /\ (work_dir[1] # None /\ work_dir[2] # None) =>
         { StagingDir(1, n) : n \in StagingNames }
           \cap { StagingDir(2, n) : n \in StagingNames } = {}
====
